---- MODULE Spec2Model ----
(***************************************************************************)
(* Model of nuitka/utils/SharedLibraries.py: locating shared libraries,    *)
(* reading PE metadata, reading and removing RPATH entries, rewriting      *)
(* Mach-O install names, removing code signatures and SxS manifests.       *)
(*                                                                         *)
(* Byte strings are TLA+ strings; Len, SubSeq and \o act on them as on     *)
(* sequences of characters, so the scanners below work character by        *)
(* character as the Python code does.                                      *)
(***************************************************************************)
EXTENDS Integers, Sequences, FiniteSets, TLC

\* Python's None.
None == "<None>"

(***************************************************************************)
(* Python bytes/str primitives used by the module.                         *)
(***************************************************************************)
MinOf(S) == CHOOSE x \in S : \A y \in S : x <= y
MaxOf(S) == CHOOSE x \in S : \A y \in S : x >= y

\* s.startswith(p)
StartsWith(s, p) == Len(s) >= Len(p) /\ SubSeq(s, 1, Len(p)) = p

\* s.find(sub, i): the lowest 0-based offset from i on at which sub occurs in
\* s, -1 when there is none.
RECURSIVE FindFrom(_, _, _)
FindFrom(s, sub, i) ==
    IF i + Len(sub) > Len(s) THEN -1
    ELSE IF SubSeq(s, i + 1, i + Len(sub)) = sub THEN i
    ELSE FindFrom(s, sub, i + 1)

\* s.find(sub)
Find(s, sub) == FindFrom(s, sub, 0)

\* The highest 0-based offset up to i at which sub occurs in s, -1 when there
\* is none.
RECURSIVE RFindFrom(_, _, _)
RFindFrom(s, sub, i) ==
    IF i < 0 THEN -1
    ELSE IF SubSeq(s, i + 1, i + Len(sub)) = sub THEN i
    ELSE RFindFrom(s, sub, i - 1)

\* s.rfind(sub)
RFind(s, sub) == RFindFrom(s, sub, Len(s) - Len(sub))

\* sub in s
Contains(s, sub) == Find(s, sub) # -1

\* s.count(sub) from offset i on: the occurrences that do not overlap.
RECURSIVE CountFrom(_, _, _)
CountFrom(s, sub, i) ==
    LET at == FindFrom(s, sub, i)
    IN  IF at = -1 THEN 0 ELSE 1 + CountFrom(s, sub, at + Len(sub))

\* s.count(sub)
Count(s, sub) == CountFrom(s, sub, 0)

\* One index of a slice, clamped as Python clamps it.
SliceIndex(s, i) ==
    IF i < 0 THEN (IF Len(s) + i < 0 THEN 0 ELSE Len(s) + i)
    ELSE (IF i > Len(s) THEN Len(s) ELSE i)

\* s[lo:hi]
Slice(s, lo, hi) == SubSeq(s, SliceIndex(s, lo) + 1, SliceIndex(s, hi))

\* s[lo:]
SliceFrom(s, lo) == SubSeq(s, SliceIndex(s, lo) + 1, Len(s))

Whitespace == {" ", "\t", "\n", "\r"}

\* The first position from i on, and the last position up to i, that holds no
\* whitespace; Len(s) + 1 and 0 when there is none.
RECURSIVE FirstNonSpace(_, _)
FirstNonSpace(s, i) ==
    IF i > Len(s) \/ SubSeq(s, i, i) \notin Whitespace THEN i ELSE FirstNonSpace(s, i + 1)

RECURSIVE LastNonSpace(_, _)
LastNonSpace(s, i) ==
    IF i < 1 \/ SubSeq(s, i, i) \notin Whitespace THEN i ELSE LastNonSpace(s, i - 1)

\* s.strip()
Strip(s) == SubSeq(s, FirstNonSpace(s, 1), LastNonSpace(s, Len(s)))

\* s.split(sep) for a non-empty separator: the pieces between occurrences.
RECURSIVE SplitFrom(_, _, _)
SplitFrom(s, sep, i) ==
    LET at == FindFrom(s, sep, i)
    IN  IF at = -1 THEN <<SubSeq(s, i + 1, Len(s))>>
        ELSE <<SubSeq(s, i + 1, at)>> \o SplitFrom(s, sep, at + Len(sep))

Split(s, sep) == SplitFrom(s, sep, 0)

\* The first position from i on that holds whitespace, Len(s) + 1 when there
\* is none.
RECURSIVE FirstSpace(_, _)
FirstSpace(s, i) ==
    IF i > Len(s) \/ SubSeq(s, i, i) \in Whitespace THEN i ELSE FirstSpace(s, i + 1)

\* s.split(): the whitespace-separated words.
RECURSIVE Words(_)
Words(s) ==
    LET t   == Strip(s)
        cut == FirstSpace(t, 1)
    IN  IF t = "" THEN <<>>
        ELSE <<SubSeq(t, 1, cut - 1)>> \o Words(SliceFrom(t, cut - 1))

\* s.splitlines(): the pieces between newlines, without a last empty piece.
SplitLines(s) ==
    LET parts == Split(s, "\n")
    IN  IF parts[Len(parts)] = "" THEN SubSeq(parts, 1, Len(parts) - 1) ELSE parts

\* sep.join(parts)
RECURSIVE Join(_, _)
Join(sep, parts) ==
    IF parts = <<>> THEN ""
    ELSE IF Len(parts) = 1 THEN parts[1]
    ELSE parts[1] \o sep \o Join(sep, Tail(parts))

(***************************************************************************)
(* State.  Each group of variables belongs to one part of the module; a    *)
(* specification drives one group and leaves the others at rest.           *)
(***************************************************************************)
VARIABLES
    \* install_name_tool's stderr and executeToolChecked's verdict on it
    tool_stderr,      \* the bytes the tool has written to stderr
    stderr_lines,     \* the lines the tool wrote, in order
    flt_pc,           \* "running" while the tool writes, "checked" after
    flt_exit,         \* the tool's exit code
    flt_filtered,     \* stderr after _filterInstallNameToolErrorOutput
    flt_raised,       \* what executeToolChecked raised, "none" if nothing
    \* _getSharedLibraryRPATHDarwin over the output of "otool -l"
    otool_output,     \* the bytes otool has written to stdout
    otool_report,     \* what otool wrote: one record per line, in order
    scan_pc,          \* "dumping" while otool writes, "returned" after the scan
    scan_result,      \* what the scanner returned
    \* getPEFileInformation
    pe_type,          \* pe.PE_TYPE, the optional-header magic of the file
    pe_imports,       \* the dll names of pe.DIRECTORY_ENTRY_IMPORT, in order
    host_arch,        \* getArchitecture() of the running Python
    pe_pc,            \* "start", then "returned" or "raised"
    pe_extracted,     \* the dictionary returned, None when nothing was
    pe_error,         \* the exception raised, "none" when nothing was
    pe_warnings,      \* what postprocessing_logger.warning was given
    \* getWindowsDLLVersion
    ver_size,         \* what GetFileVersionInfoSize returns
    ver_success,      \* what GetFileVersionInfo returns
    ver_found,        \* what VerQueryValueA returns for the root block
    file_info,        \* the VS_FIXEDFILEINFO the root query points at
    ver_pc,           \* "start", then "returned" or "raised"
    ver_result,       \* the 4-tuple returned
    ver_error,        \* the exception raised, "none" when nothing was
    \* removeSxsFromDLL
    sxs_filename,     \* the filename argument
    sxs_basename,     \* the last component the filename was made of
    sxs_before,       \* the file's resources before the call
    sxs_resources,    \* the file's resources now: records (kind, name), in order
    sxs_calls,        \* the calls made to the resource reader and writer
    sxs_pc,           \* "start", then "returned"
    \* locateDLL
    loc_host,         \* the host: "Windows", "Darwin", "Alpine" or another "Linux"
    loc_found,        \* what ctypes.util.find_library returns for the name
    loc_soname,       \* what ctypes.util._get_soname returns for that file
    loc_walk,         \* what os.walk yields under each of the three directories
    ldconfig_present, \* whether /sbin/ldconfig can be run
    ldconfig_output,  \* the bytes "/sbin/ldconfig -p" writes to stdout
    ldconfig_rows,    \* the rows of that table: records (name, path), in order
    loc_pc,           \* "start", then "returned" or "raised"
    loc_result,       \* what locateDLL returned
    loc_error,        \* the exception raised, "none" when nothing was
    \* the binary patcher: one ELF or Mach-O file and the calls made on it
    patch_os,         \* getOS(): "Darwin" or "Linux"
    bin,              \* the file's content
    file_mode,        \* the file's permission bits
    env_fault,        \* what is wrong with the tools of this host, if anything
    history           \* the calls made so far, one record each

filterVars == <<tool_stderr, stderr_lines, flt_pc, flt_exit, flt_filtered, flt_raised>>
scanVars == <<otool_output, otool_report, scan_pc, scan_result>>
peVars == <<pe_type, pe_imports, host_arch, pe_pc, pe_extracted, pe_error, pe_warnings>>
verVars == <<ver_size, ver_success, ver_found, file_info, ver_pc, ver_result, ver_error>>
sxsVars == <<sxs_filename, sxs_basename, sxs_before, sxs_resources, sxs_calls, sxs_pc>>
locVars == <<loc_host, loc_found, loc_soname, loc_walk, ldconfig_present,
             ldconfig_output, ldconfig_rows, loc_pc, loc_result, loc_error>>
patchVars == <<patch_os, bin, file_mode, env_fault, history>>

vars == <<filterVars, scanVars, peVars, verVars, sxsVars, locVars, patchVars>>

(***************************************************************************)
(* _filterInstallNameToolErrorOutput and executeToolChecked.               *)
(***************************************************************************)
\* The text the filter looks for in a line.
BenignWarningText == "invalidate the code signature"

\* A filter that looks for the wording "invalidates the code signature".
KeepStderrLine_OtherWording(line) ==
    line # "" /\ ~Contains(line, "invalidates the code signature")

\* The filter's two conditions on a line: "if line" and "if ... not in line".
KeepStderrLine(line) == line # "" /\ ~Contains(line, BenignWarningText)

\* _filterInstallNameToolErrorOutput(stderr)
FilterInstallNameToolErrorOutput(stderr) ==
    Join("\n", SelectSeq(SplitLines(stderr), KeepStderrLine))

\* executeToolChecked's verdict once the process has ended: the tool must be
\* there, must exit with 0 and must leave no stderr after filtering.
ExecuteToolChecked(present, exit_code, stderr) ==
    IF ~present THEN "missing_tool"
    ELSE IF exit_code # 0 THEN "tool_failed"
    ELSE IF stderr # "" THEN "tool_warnings"
    ELSE "none"

\* Longest stderr the tool writes, in lines.
MaxStderrLines == 3

\* Lines install_name_tool may write to stderr.
CodeSignatureWarning ==
    "warning: changes being made to the file will invalidate the code signature in: a.so"
StderrLineTexts ==
    { CodeSignatureWarning,
      "note: this invalidates the code signature",
      "error: would duplicate path",
      "fatal error: can't open file",
      "",
      "  " }

FilterStart ==
    /\ tool_stderr = ""
    /\ stderr_lines = <<>>
    /\ flt_pc = "running"
    /\ flt_exit = 0
    /\ flt_filtered = ""
    /\ flt_raised = "none"

\* The tool writes one more line to stderr.
EmitStderrLine(text) ==
    /\ flt_pc = "running"
    /\ Len(stderr_lines) < MaxStderrLines
    /\ tool_stderr' = tool_stderr \o text \o "\n"
    /\ stderr_lines' = Append(stderr_lines, text)
    /\ UNCHANGED <<flt_pc, flt_exit, flt_filtered, flt_raised>>
    /\ UNCHANGED <<scanVars, peVars, verVars, sxsVars, locVars, patchVars>>

\* The tool exits; executeToolChecked filters its stderr and decides.
ToolExits(code) ==
    /\ flt_pc = "running"
    /\ flt_pc' = "checked"
    /\ flt_exit' = code
    /\ flt_filtered' = FilterInstallNameToolErrorOutput(tool_stderr)
    /\ flt_raised' =
           ExecuteToolChecked(TRUE, code, FilterInstallNameToolErrorOutput(tool_stderr))
    /\ UNCHANGED <<tool_stderr, stderr_lines>>
    /\ UNCHANGED <<scanVars, peVars, verVars, sxsVars, locVars, patchVars>>

FilterNext ==
    \/ \E text \in StderrLineTexts : EmitStderrLine(text)
    \/ \E code \in {0, 1} : ToolExits(code)


(***************************************************************************)
(* _getSharedLibraryRPATHDarwin.                                           *)
(***************************************************************************)
\* result.decode("utf-8") of bytes that are all ASCII, as the strings here are.
DecodeUtf8(bytes) == bytes

\* Whether the scanner takes this line as the current command type.
TakesCommandType_AnyCmdLine(last_was_load_command, line) ==
    StartsWith(line, "cmd ")

\* "if last_was_load_command and line.startswith(b'cmd ')"
TakesCommandType(last_was_load_command, line) ==
    last_was_load_command /\ StartsWith(line, "cmd ")

\* "line[5 : line.rfind(b'(') - 1]"
\* A value cut at the parenthesis, the blank before it included.
PathValue_UpToParenthesis(line) == Slice(line, 5, RFind(line, "("))

PathValue(line) == Slice(line, 5, RFind(line, "(") - 1)

\* The for loop over the lines from lines[i] on, with the loop's two variables.
RECURSIVE ScanOtoolLines(_, _, _, _)
ScanOtoolLines(lines, i, cmd, last_was_load_command) ==
    IF i > Len(lines) THEN None
    ELSE LET line == Strip(lines[i])
         IN  IF cmd = "LC_RPATH" /\ StartsWith(line, "path ")
             THEN DecodeUtf8(PathValue(line))
             ELSE ScanOtoolLines(
                      lines, i + 1,
                      IF TakesCommandType(last_was_load_command, line)
                          THEN Words(line)[2] ELSE cmd,
                      StartsWith(line, "Load command"))

\* _getSharedLibraryRPATHDarwin on otool's output
GetSharedLibraryRPATHDarwin(output) ==
    ScanOtoolLines(Split(output, "\n"), 1, "", FALSE)

\* Longest otool report, in lines.
MaxOtoolLines == 5

\* The lines "otool -l" writes: a load command's header, its cmd line, and
\* the fields of the command.  kind and value say what the line is.
OtoolLines ==
    { [text |-> "Load command 7", kind |-> "header", value |-> ""],
      [text |-> "          cmd LC_RPATH", kind |-> "cmd", value |-> "LC_RPATH"],
      [text |-> "          cmd LC_ID_DYLIB", kind |-> "cmd", value |-> "LC_ID_DYLIB"],
      [text |-> "      cmdsize 32", kind |-> "field", value |-> ""],
      [text |-> "         path @loader_path (offset 12)", kind |-> "path",
       value |-> "@loader_path"],
      [text |-> "         path /opt/x (1) (offset 12)", kind |-> "path",
       value |-> "/opt/x (1)"] }

ScanStart ==
    /\ otool_output = ""
    /\ otool_report = <<>>
    /\ scan_pc = "dumping"
    /\ scan_result = None

\* otool writes one more line.  A load command's header is always followed
\* by the command's cmd line.
OtoolWritesLine(l) ==
    /\ scan_pc = "dumping"
    /\ Len(otool_report) < MaxOtoolLines
    /\ (otool_report # <<>> /\ otool_report[Len(otool_report)].kind = "header")
           => l.kind = "cmd"
    /\ otool_output' = otool_output \o l.text \o "\n"
    /\ otool_report' = Append(otool_report, l)
    /\ UNCHANGED <<scan_pc, scan_result>>
    /\ UNCHANGED <<filterVars, peVars, verVars, sxsVars, locVars, patchVars>>

\* otool exits after a complete report and the scanner runs over its output.
ScanOtoolOutput ==
    /\ scan_pc = "dumping"
    /\ otool_report # <<>> => otool_report[Len(otool_report)].kind # "header"
    /\ scan_pc' = "returned"
    /\ scan_result' = GetSharedLibraryRPATHDarwin(otool_output)
    /\ UNCHANGED <<otool_output, otool_report>>
    /\ UNCHANGED <<filterVars, peVars, verVars, sxsVars, locVars, patchVars>>

ScanNext ==
    \/ \E l \in OtoolLines : OtoolWritesLine(l)
    \/ ScanOtoolOutput

(***************************************************************************)
(* getPEFileInformation.                                                   *)
(***************************************************************************)
\* pefile.OPTIONAL_HEADER_MAGIC_PE (0x10b) and OPTIONAL_HEADER_MAGIC_PE_PLUS
\* (0x20b), the two optional-header magics pefile names.
OPTIONAL_HEADER_MAGIC_PE == 267
OPTIONAL_HEADER_MAGIC_PE_PLUS == 523

\* A table that takes the 32 bit magic for 64 bit and the other way round.
pe_type2arch_Swapped ==
    (OPTIONAL_HEADER_MAGIC_PE :> TRUE) @@ (OPTIONAL_HEADER_MAGIC_PE_PLUS :> FALSE)

\* The dictionary pe_type2arch.
pe_type2arch ==
    (OPTIONAL_HEADER_MAGIC_PE :> FALSE) @@ (OPTIONAL_HEADER_MAGIC_PE_PLUS :> TRUE)

\* "if pe.PE_TYPE not in pe_type2arch"
UnknownPEType(magic) == magic \notin DOMAIN pe_type2arch

\* The warning's text: "Python %s bits with %s bits dependencies in '%s'".
ArchWarning(python_is_64bit, amd64, filename) ==
    "Python " \o (IF python_is_64bit THEN "32" ELSE "64") \o " bits with "
    \o (IF amd64 THEN "64" ELSE "32") \o " bits dependencies in '" \o filename \o "'"

\* getPEFileInformation(filename) on a file with this magic and these imports,
\* under a Python of this architecture: what is returned, raised and logged.
GetPEFileInformation(filename, magic, imports, arch) ==
    IF UnknownPEType(magic)
    THEN [extracted |-> None, error |-> "NuitkaAssumptionError", warnings |-> <<>>]
    ELSE LET amd64 == pe_type2arch[magic]
             python_is_64bit == (arch = "x86_64")
         IN  [extracted |-> [DLLs |-> imports, AMD64 |-> amd64],
              error |-> "none",
              warnings |-> IF amd64 # python_is_64bit
                               THEN <<ArchWarning(python_is_64bit, amd64, filename)>>
                               ELSE <<>>]

\* Most imports a file has.
MaxImports == 2

\* Optional-header magics a file may carry: the two of pefile, the ROM image
\* magic 0x107, zero and 0xffff.
PETypes == {OPTIONAL_HEADER_MAGIC_PE, OPTIONAL_HEADER_MAGIC_PE_PLUS, 263, 0, 65535}
ImportNames == {"KERNEL32.dll", "python39.dll"}
ImportLists == UNION { [1..n -> ImportNames] : n \in 0..MaxImports }
Architectures == {"x86_64", "x86", "arm64"}

PEStart ==
    /\ pe_type \in PETypes
    /\ pe_imports \in ImportLists
    /\ host_arch \in Architectures
    /\ pe_pc = "start"
    /\ pe_extracted = None
    /\ pe_error = "none"
    /\ pe_warnings = <<>>

PERest ==
    /\ pe_type = 0
    /\ pe_imports = <<>>
    /\ host_arch = "x86_64"
    /\ pe_pc = "rest"
    /\ pe_extracted = None
    /\ pe_error = "none"
    /\ pe_warnings = <<>>

CallGetPEFileInformation ==
    /\ pe_pc = "start"
    /\ LET r == GetPEFileInformation("a.dll", pe_type, pe_imports, host_arch)
       IN  /\ pe_pc' = IF r.error = "none" THEN "returned" ELSE "raised"
           /\ pe_extracted' = r.extracted
           /\ pe_error' = r.error
           /\ pe_warnings' = r.warnings
    /\ UNCHANGED <<pe_type, pe_imports, host_arch>>
    /\ UNCHANGED <<filterVars, scanVars, verVars, sxsVars, locVars, patchVars>>

PENext == CallGetPEFileInformation

(***************************************************************************)
(* getWindowsDLLVersion.  A DWORD is its four bytes in memory, lowest      *)
(* first, as the ctypes structure holds it; 0xFEEF04BD does not fit the    *)
(* model checker's integers.                                               *)
(***************************************************************************)
\* 0xFEEF04BD
VS_FFI_SIGNATURE == <<189, 4, 239, 254>>

\* A shift by one byte only.
ShiftRight16_By8(dword) == <<dword[2], dword[3], dword[4], 0>>

\* dword >> 16
ShiftRight16(dword) == <<dword[3], dword[4], 0, 0>>

\* dword & 0xFFFF
And0xFFFF(dword) == <<dword[1], dword[2], 0, 0>>

\* The Python int of a DWORD below 2^16.
SmallInt(dword) == dword[1] + 256 * dword[2]

\* "(ms >> 16) & 0xFFFF, ms & 0xFFFF, (ls >> 16) & 0xFFFF, ls & 0xFFFF"
VersionQuad(ms, ls) ==
    << SmallInt(And0xFFFF(ShiftRight16(ms))), SmallInt(And0xFFFF(ms)),
       SmallInt(And0xFFFF(ShiftRight16(ls))), SmallInt(And0xFFFF(ls)) >>

\* getWindowsDLLVersion(filename), given what the version API answers.
GetWindowsDLLVersion(size, success, found, info) ==
    IF size = 0 THEN [result |-> <<0, 0, 0, 0>>, error |-> "none"]
    ELSE IF ~success THEN [result |-> None, error |-> "AssertionError"]
    ELSE IF ~found THEN [result |-> <<0, 0, 0, 0>>, error |-> "none"]
    ELSE IF ~(info.dwSignature = VS_FFI_SIGNATURE)
         THEN [result |-> <<0, 0, 0, 0>>, error |-> "none"]
    ELSE [result |-> VersionQuad(info.dwFileVersionMS, info.dwFileVersionLS),
          error |-> "none"]

\* DWORDs a version block may hold: every mix of 0x00 and 0xFF bytes, and
\* 0x00010002, 0x00030004.
Dwords ==
    { <<a, b, c, d>> : a \in {0, 255}, b \in {0, 255}, c \in {0, 255}, d \in {0, 255} }
        \cup { <<2, 0, 1, 0>>, <<4, 0, 3, 0>> }
Signatures == { VS_FFI_SIGNATURE, <<189, 4, 239, 0>>, <<0, 0, 0, 0>>, <<254, 239, 4, 189>> }
VersionInfoSizes == {0, 1844}

VerStart ==
    /\ ver_size \in VersionInfoSizes
    /\ ver_success \in BOOLEAN
    /\ ver_found \in BOOLEAN
    /\ file_info \in [dwSignature : Signatures, dwFileVersionMS : Dwords,
                      dwFileVersionLS : Dwords]
    /\ ver_pc = "start"
    /\ ver_result = None
    /\ ver_error = "none"

VerRest ==
    /\ ver_size = 0
    /\ ver_success = FALSE
    /\ ver_found = FALSE
    /\ file_info = None
    /\ ver_pc = "rest"
    /\ ver_result = None
    /\ ver_error = "none"

CallGetWindowsDLLVersion ==
    /\ ver_pc = "start"
    /\ LET r == GetWindowsDLLVersion(ver_size, ver_success, ver_found, file_info)
       IN  /\ ver_pc' = IF r.error = "none" THEN "returned" ELSE "raised"
           /\ ver_result' = r.result
           /\ ver_error' = r.error
    /\ UNCHANGED <<ver_size, ver_success, ver_found, file_info>>
    /\ UNCHANGED <<filterVars, scanVars, peVars, sxsVars, locVars, patchVars>>

VerNext == CallGetWindowsDLLVersion

(***************************************************************************)
(* removeSxsFromDLL, on Windows: os.path is ntpath.                        *)
(***************************************************************************)
UpperCaseLetters == "ABCDEFGHIJKLMNOPQRSTUVWXYZ"
LowerCaseLetters == "abcdefghijklmnopqrstuvwxyz"

\* One character of s.lower().replace("/", "\\").
NormcaseChar(c) ==
    IF c = "/" THEN "\\"
    ELSE IF Contains(UpperCaseLetters, c)
         THEN SubSeq(LowerCaseLetters, Find(UpperCaseLetters, c) + 1,
                     Find(UpperCaseLetters, c) + 1)
    ELSE c

\* posixpath.normcase: the path as it is.
Normcase_Posix(path) == path

\* ntpath.normcase(path)
RECURSIVE Normcase(_)
Normcase(path) ==
    IF path = "" THEN ""
    ELSE NormcaseChar(SubSeq(path, 1, 1)) \o Normcase(SliceFrom(path, 1))

\* ntpath.basename(path): what follows the last separator or drive colon.
Basename(path) ==
    LET cut == MaxOf({ RFind(path, "/") + 1, RFind(path, "\\") + 1,
                       IF Len(path) >= 2 /\ SubSeq(path, 2, 2) = ":" THEN 2 ELSE 0 })
    IN  SliceFrom(path, cut)

\* "os.path.normcase(os.path.basename(filename)) not in (...)"
NeedsNoSxsRemoval(filename) ==
    Normcase(Basename(filename)) \notin {"sip.pyd", "win32ui.pyd", "winxpgui.pyd"}

\* getResourcesFromDLL(filename, resource_kinds): the names of the file's
\* resources of these kinds, in the file's order.
GetResourcesFromDLL(resources, resource_kinds) ==
    LET OfKind(r) == r.kind \in resource_kinds
        found == SelectSeq(resources, OfKind)
    IN  [i \in 1..Len(found) |-> found[i].name]

\* deleteWindowsResources(filename, resource_kind, res_names): the file's
\* resources without the named ones of that kind.
DeleteWindowsResources(resources, resource_kind, res_names) ==
    LET Stays(r) ==
            ~(r.kind = resource_kind /\ \E i \in 1..Len(res_names) : res_names[i] = r.name)
    IN  SelectSeq(resources, Stays)

\* removeSxsFromDLL(filename): the file's resources afterwards and the calls
\* made on the way.
RemoveSxsFromDLL(filename, resources) ==
    IF NeedsNoSxsRemoval(filename) THEN [resources |-> resources, calls |-> <<>>]
    ELSE LET res_names == GetResourcesFromDLL(resources, {"RT_MANIFEST"})
         IN  IF res_names # <<>>
             THEN [resources |-> DeleteWindowsResources(resources, "RT_MANIFEST", res_names),
                   calls |-> << [op |-> "getResourcesFromDLL", kind |-> "RT_MANIFEST",
                                 names |-> <<>>],
                                [op |-> "deleteWindowsResources", kind |-> "RT_MANIFEST",
                                 names |-> res_names] >>]
             ELSE [resources |-> resources,
                   calls |-> << [op |-> "getResourcesFromDLL", kind |-> "RT_MANIFEST",
                                 names |-> <<>>] >>]

\* Most resources a file holds.
MaxResources == 3

\* The three names in several letter cases, and names that are none of them.
SxsBasenames == {"sip.pyd", "SIP.PYD", "Win32UI.pyd", "winxpgui.PYD"}
OtherBasenames == {"sip.pyd.bak", "mysip.pyd", "python39.dll", "sip"}
Directories == {"", "C:\\Py\\Lib\\", "build/", "C:sip.pyd\\", "D:"}
ResourceEntries ==
    { [kind |-> "RT_MANIFEST", name |-> 1], [kind |-> "RT_MANIFEST", name |-> 2],
      [kind |-> "RT_VERSION", name |-> 1], [kind |-> "RT_ICON", name |-> 2] }
ResourceLists ==
    { r \in UNION { [1..n -> ResourceEntries] : n \in 0..MaxResources } :
        \A i, j \in 1..Len(r) : i # j => r[i] # r[j] }

SxsStart ==
    /\ sxs_basename \in SxsBasenames \cup OtherBasenames
    /\ \E dir \in Directories : sxs_filename = dir \o sxs_basename
    /\ sxs_before \in ResourceLists
    /\ sxs_resources = sxs_before
    /\ sxs_calls = <<>>
    /\ sxs_pc = "start"

SxsRest ==
    /\ sxs_basename = ""
    /\ sxs_filename = ""
    /\ sxs_before = <<>>
    /\ sxs_resources = <<>>
    /\ sxs_calls = <<>>
    /\ sxs_pc = "rest"

CallRemoveSxsFromDLL ==
    /\ sxs_pc = "start"
    /\ LET r == RemoveSxsFromDLL(sxs_filename, sxs_resources)
       IN  /\ sxs_resources' = r.resources
           /\ sxs_calls' = r.calls
    /\ sxs_pc' = "returned"
    /\ UNCHANGED <<sxs_filename, sxs_basename, sxs_before>>
    /\ UNCHANGED <<filterVars, scanVars, peVars, verVars, locVars, patchVars>>

SxsNext == CallRemoveSxsFromDLL

(***************************************************************************)
(* locateDLLFromFilesystem and locateDLL.                                  *)
(***************************************************************************)
\* posixpath.join(a, b) for a relative b.
PathJoin(a, b) ==
    IF a = "" \/ SubSeq(a, Len(a), Len(a)) = "/" THEN a \o b ELSE a \o "/" \o b

\* posixpath.dirname(p)
Dirname(p) ==
    LET head == Slice(p, 0, RFind(p, "/") + 1)
        nonsep == { i \in 1..Len(head) : SubSeq(head, i, i) # "/" }
    IN  IF nonsep = {} THEN head ELSE SubSeq(head, 1, MaxOf(nonsep))

\* ntpath.normpath(p) for a path without "." and ".." components and without
\* doubled separators: every "/" becomes "\".
RECURSIVE NormpathNt(_)
NormpathNt(p) ==
    IF p = "" THEN ""
    ELSE (IF SubSeq(p, 1, 1) = "/" THEN "\\" ELSE SubSeq(p, 1, 1))
         \o NormpathNt(SliceFrom(p, 1))

\* The inner loop over what os.walk(path) yields, from entry j on.
RECURSIVE WalkFrom(_, _, _)
WalkFrom(name, entries, j) ==
    IF j > Len(entries) THEN None
    ELSE IF name \in entries[j].files THEN PathJoin(entries[j].root, name)
    ELSE WalkFrom(name, entries, j + 1)

\* locateDLLFromFilesystem(name, paths), the outer loop from paths[i] on; the
\* function falls off its end, returning None, when no file matches.
RECURSIVE LocateDLLFromFilesystem(_, _, _, _)
LocateDLLFromFilesystem(name, paths, walk, i) ==
    IF i > Len(paths) THEN None
    ELSE IF WalkFrom(name, walk[paths[i]], 1) # None
         THEN WalkFrom(name, walk[paths[i]], 1)
    ELSE LocateDLLFromFilesystem(name, paths, walk, i + 1)

EmptyMap == [k \in {} |-> ""]

\* The loop filling dll_map from the lines of the table, from lines[i] on.  An
\* assertion or the unpacking of the split may fail on a line.
RECURSIVE ParseLdconfig(_, _, _)
ParseLdconfig(lines, i, dll_map) ==
    IF i > Len(lines) THEN [error |-> "none", dll_map |-> dll_map]
    ELSE LET line  == lines[i]
             parts == Split(Strip(line), " => ")
         IN  IF Count(line, "=>") # 1 THEN [error |-> "AssertionError", dll_map |-> dll_map]
             ELSE IF Len(parts) # 2 THEN [error |-> "ValueError", dll_map |-> dll_map]
             ELSE IF ~Contains(parts[1], " (")
                  THEN [error |-> "AssertionError", dll_map |-> dll_map]
             ELSE LET left  == DecodeUtf8(Slice(parts[1], 0, RFind(parts[1], " (")))
                      right == DecodeUtf8(parts[2])
                  IN  ParseLdconfig(lines, i + 1,
                          IF left \notin DOMAIN dll_map
                              THEN dll_map @@ (left :> right) ELSE dll_map)

\* "return dll_map[dll_name]"
LookupDllMap(dll_map, dll_name) ==
    IF dll_name \in DOMAIN dll_map
    THEN [result |-> dll_map[dll_name], error |-> "none"]
    ELSE [result |-> None, error |-> "KeyError"]

\* locateDLL(dll_name), given what the host answers.
LocateDLL(host, found, so_name, walk, present, output) ==
    IF found = None THEN [result |-> None, error |-> "none"]
    ELSE IF host = "Windows" THEN [result |-> NormpathNt(found), error |-> "none"]
    ELSE IF host = "Darwin" THEN [result |-> found, error |-> "none"]
    ELSE IF Contains(found, "/")
         THEN IF so_name # None
              THEN [result |-> PathJoin(Dirname(found), so_name), error |-> "none"]
              ELSE [result |-> found, error |-> "none"]
    ELSE IF host = "Alpine"
         THEN [result |-> LocateDLLFromFilesystem(
                              found, <<"/lib", "/usr/lib", "/usr/local/lib">>, walk, 1),
               error |-> "none"]
    ELSE IF ExecuteToolChecked(present, 0, "") # "none"
         THEN [result |-> None, error |-> ExecuteToolChecked(present, 0, "")]
    ELSE LET lines  == SplitLines(output)
             parsed == ParseLdconfig(SubSeq(lines, 2, Len(lines)), 1, EmptyMap)
         IN  IF parsed.error # "none" THEN [result |-> None, error |-> parsed.error]
             ELSE LookupDllMap(parsed.dll_map, found)

\* Most rows of the ldconfig table.
MaxLdconfigRows == 2

LibraryNames == {"libz.so.1", "libfoo.so.2"}
LdconfigHeader == "3 libs found in cache `/etc/ld.so.cache'"
LdconfigRows ==
    { [text |-> "\tlibz.so.1 (libc6,x86-64) => /lib/x86_64-linux-gnu/libz.so.1",
       name |-> "libz.so.1", path |-> "/lib/x86_64-linux-gnu/libz.so.1"],
      [text |-> "\tlibz.so.1 (libc6) => /lib32/libz.so.1",
       name |-> "libz.so.1", path |-> "/lib32/libz.so.1"],
      [text |-> "\tlibc.so.6 (libc6,x86-64, OS ABI: Linux 3.2.0) => /lib/libc.so.6",
       name |-> "libc.so.6", path |-> "/lib/libc.so.6"] }
LdconfigTables == UNION { [1..n -> LdconfigRows] : n \in 0..MaxLdconfigRows }

\* The bytes of a table: the header line, then one line per row.
RECURSIVE LdconfigText(_)
LdconfigText(rows) ==
    IF rows = <<>> THEN LdconfigHeader \o "\n"
    ELSE LdconfigText(SubSeq(rows, 1, Len(rows) - 1)) \o rows[Len(rows)].text \o "\n"

\* What os.walk yields under the three directories: the directory itself and,
\* under /usr/lib, one subdirectory; a directory that does not exist yields
\* nothing.
Walks ==
    { [p \in {"/lib", "/usr/lib", "/usr/local/lib"} |->
          CASE p = "/lib" -> <<[root |-> "/lib", files |-> f1]>>
            [] p = "/usr/lib" -> <<[root |-> "/usr/lib", files |-> f2],
                                   [root |-> "/usr/lib/engines", files |-> f3]>>
            [] OTHER -> IF f4 = {} THEN <<>>
                        ELSE <<[root |-> "/usr/local/lib", files |-> f4]>>] :
        f1 \in SUBSET LibraryNames, f2 \in SUBSET LibraryNames,
        f3 \in SUBSET LibraryNames, f4 \in SUBSET LibraryNames }
NoWalk == [p \in {"/lib", "/usr/lib", "/usr/local/lib"} |-> <<>>]

LocStart ==
    /\ loc_host \in {"Windows", "Darwin", "Alpine", "Linux"}
    /\ loc_found \in
           CASE loc_host = "Windows" -> {None, "C:\\Windows/System32\\zlib.dll"}
             [] loc_host = "Darwin" -> {None, "/usr/lib/libz.dylib"}
             [] OTHER -> {None, "/usr/lib/libz.so"} \cup LibraryNames
    /\ loc_soname \in IF loc_host \in {"Alpine", "Linux"} /\ loc_found = "/usr/lib/libz.so"
                          THEN {None, "libz.so.1"} ELSE {None}
    /\ loc_walk \in IF loc_host = "Alpine" THEN Walks ELSE {NoWalk}
    /\ ldconfig_present \in IF loc_host = "Linux" THEN BOOLEAN ELSE {FALSE}
    /\ ldconfig_rows \in IF loc_host = "Linux" THEN LdconfigTables ELSE {<<>>}
    /\ ldconfig_output = IF loc_host = "Linux" THEN LdconfigText(ldconfig_rows) ELSE ""
    /\ loc_pc = "start"
    /\ loc_result = None
    /\ loc_error = "none"

LocRest ==
    /\ loc_host = "Linux"
    /\ loc_found = None
    /\ loc_soname = None
    /\ loc_walk = NoWalk
    /\ ldconfig_present = FALSE
    /\ ldconfig_rows = <<>>
    /\ ldconfig_output = ""
    /\ loc_pc = "rest"
    /\ loc_result = None
    /\ loc_error = "none"

CallLocateDLL ==
    /\ loc_pc = "start"
    /\ LET r == LocateDLL(loc_host, loc_found, loc_soname, loc_walk,
                          ldconfig_present, ldconfig_output)
       IN  /\ loc_pc' = IF r.error = "none" THEN "returned" ELSE "raised"
           /\ loc_result' = r.result
           /\ loc_error' = r.error
    /\ UNCHANGED <<loc_host, loc_found, loc_soname, loc_walk, ldconfig_present,
                   ldconfig_output, ldconfig_rows>>
    /\ UNCHANGED <<filterVars, scanVars, peVars, verVars, sxsVars, patchVars>>

LocNext == CallLocateDLL

(***************************************************************************)
(* The binary file and the external tools that read and change it.         *)
(*                                                                         *)
(* A binary's content is a record: rpaths, its RPATH/RUNPATH entries (ELF) *)
(* or LC_RPATH load commands (Mach-O) as records (tag, value) in file      *)
(* order; dylibs, the libraries it loads; signed, whether it carries a     *)
(* code signature.  The file's mode is the set of its permission bits.     *)
(***************************************************************************)
\* The mode the writable scope gives the file: rw-r--r--.
WritableFileMode == {"ur", "uw", "gr", "or"}

IsWritable(mode) == "uw" \in mode

RpathValues(content) == { content.rpaths[i].value : i \in 1..Len(content.rpaths) }

Digits == "0123456789"
DigitText(n) == SubSeq(Digits, n + 1, n + 1)

\* What "readelf -d" prints: a heading, then one line per dynamic entry.
RECURSIVE ReadelfNeededLines(_)
ReadelfNeededLines(dylibs) ==
    IF dylibs = <<>> THEN ""
    ELSE " 0x01 (NEEDED)  Shared library: [" \o dylibs[1] \o "]\n"
         \o ReadelfNeededLines(Tail(dylibs))

RECURSIVE ReadelfRpathLines(_)
ReadelfRpathLines(rpaths) ==
    IF rpaths = <<>> THEN ""
    ELSE (IF rpaths[1].tag = "RPATH"
              THEN " 0x0f (RPATH)  Library rpath: [" \o rpaths[1].value \o "]\n"
              ELSE " 0x1d (RUNPATH)  Library runpath: [" \o rpaths[1].value \o "]\n")
         \o ReadelfRpathLines(Tail(rpaths))

ReadelfOutput(content) ==
    "\nDynamic section at offset 0x2df8:\n"
    \o "  Tag  Type  Name/Value\n"
    \o ReadelfNeededLines(content.dylibs)
    \o ReadelfRpathLines(content.rpaths)
    \o " 0x0c (INIT)  0x1000\n"

\* What "otool -l" prints: the file's name, then each load command.
RECURSIVE OtoolDylibCommands(_, _)
OtoolDylibCommands(dylibs, n) ==
    IF dylibs = <<>> THEN ""
    ELSE "Load command " \o DigitText(n) \o "\n"
         \o "      cmd LC_LOAD_DYLIB\n"
         \o "  cmdsize 56\n"
         \o "     name " \o dylibs[1] \o " (offset 24)\n"
         \o OtoolDylibCommands(Tail(dylibs), n + 1)

RECURSIVE OtoolRpathCommands(_, _)
OtoolRpathCommands(rpaths, n) ==
    IF rpaths = <<>> THEN ""
    ELSE "Load command " \o DigitText(n) \o "\n"
         \o "      cmd LC_RPATH\n"
         \o "  cmdsize 32\n"
         \o "     path " \o rpaths[1].value \o " (offset 12)\n"
         \o OtoolRpathCommands(Tail(rpaths), n + 1)

OtoolOutput(content) ==
    "a.dylib:\n"
    \o OtoolDylibCommands(content.dylibs, 0)
    \o OtoolRpathCommands(content.rpaths, Len(content.dylibs))
    \o (IF content.signed
            THEN "Load command " \o DigitText(Len(content.dylibs) + Len(content.rpaths))
                 \o "\n      cmd LC_CODE_SIGNATURE\n  cmdsize 16\n"
            ELSE "")

\* "chrpath -d": the file without its RPATH and RUNPATH entries.
ChrpathDelete(content) == [content EXCEPT !.rpaths = <<>>]

\* "codesign --remove-signature": the file without its signature.
CodesignRemoveSignature(content) == [content EXCEPT !.signed = FALSE]

\* The options of an install_name_tool command line, from argv[i] on: the
\* -change pairs, the -add_rpath and the -delete_rpath values.
RECURSIVE InstallNameToolOptions(_, _)
InstallNameToolOptions(argv, i) ==
    IF i >= Len(argv) THEN [changes |-> <<>>, adds |-> <<>>, deletes |-> <<>>]
    ELSE IF argv[i] = "-change"
         THEN LET rest == InstallNameToolOptions(argv, i + 3)
              IN  [rest EXCEPT !.changes = <<[old |-> argv[i + 1], new |-> argv[i + 2]]>> \o @]
    ELSE IF argv[i] = "-add_rpath"
         THEN LET rest == InstallNameToolOptions(argv, i + 2)
              IN  [rest EXCEPT !.adds = <<argv[i + 1]>> \o @]
    ELSE LET rest == InstallNameToolOptions(argv, i + 2)
         IN  [rest EXCEPT !.deletes = <<argv[i + 1]>> \o @]

\* The name a load command gets: the new name of the first -change whose old
\* name it carries.
ChangedName(name, changes) ==
    LET hits == { k \in 1..Len(changes) : changes[k].old = name }
    IN  IF hits = {} THEN name ELSE changes[MinOf(hits)].new

\* install_name_tool: it refuses a command line without options, to add an
\* rpath the file has and to delete one it has not, and then writes nothing; otherwise it writes the file with
\* the names changed, the rpaths deleted and the new ones appended.  On a
\* signed file it warns that the signature is invalidated.
InstallNameTool(argv, content) ==
    LET opts == InstallNameToolOptions(argv, 2)
        Seen(k) == \E j \in 1..(k - 1) : opts.adds[j] = opts.adds[k]
        refused ==
            \/ Len(argv) = 2
            \/ \E k \in 1..Len(opts.adds) : opts.adds[k] \in RpathValues(content) \/ Seen(k)
            \/ \E k \in 1..Len(opts.deletes) : opts.deletes[k] \notin RpathValues(content)
        Stays(r) == \A k \in 1..Len(opts.deletes) : opts.deletes[k] # r.value
    IN  IF refused
        THEN [content |-> content, exit |-> 1, stderr |-> "error: install_name_tool: refused\n"]
        ELSE [content |->
                  [content EXCEPT
                      !.dylibs = [i \in 1..Len(content.dylibs) |->
                                     ChangedName(content.dylibs[i], opts.changes)],
                      !.rpaths = SelectSeq(content.rpaths, Stays)
                                     \o [k \in 1..Len(opts.adds) |->
                                            [tag |-> "LC_RPATH", value |-> opts.adds[k]]]],
              exit |-> 0,
              stderr |-> IF content.signed THEN CodeSignatureWarning \o "\n" ELSE ""]

\* What a tool that changes the file does when run on a file of this mode: a
\* file that cannot be written is left alone and the tool fails.
MutatingTool(argv, content, mode) ==
    IF ~IsWritable(mode)
    THEN [content |-> content, exit |-> 1, stderr |-> "error: permission denied\n"]
    ELSE IF argv[1] = "chrpath"
         THEN [content |-> ChrpathDelete(content), exit |-> 0, stderr |-> ""]
    ELSE IF argv[1] = "codesign"
         THEN [content |-> CodesignRemoveSignature(content), exit |-> 0, stderr |-> ""]
    ELSE InstallNameTool(argv, content)

\* executeToolChecked on a tool that changes the file.  fault is what goes
\* wrong around the tool: "missing" (the tool is not installed),
\* "exit_nonzero" (it fails without writing), or nothing.  The result: the content and trace afterwards, what was raised.
ExecuteMutatingTool(argv, use_filter, fault, content, mode) ==
    IF fault = "missing"
    THEN [content |-> content, error |-> ExecuteToolChecked(FALSE, 0, ""), trace |-> <<>>]
    ELSE LET ran == IF fault = "exit_nonzero"
                        THEN [content |-> content, exit |-> 1, stderr |-> ""]
                        ELSE MutatingTool(argv, content, mode)
             stderr == IF use_filter THEN FilterInstallNameToolErrorOutput(ran.stderr)
                       ELSE ran.stderr
         IN  [content |-> ran.content,
              error |-> ExecuteToolChecked(TRUE, ran.exit, stderr),
              trace |-> <<[ev |-> "run", argv |-> argv, writable |-> IsWritable(mode)]>>]

\* withMadeWritableFileMode(filename) around a body: the mode is remembered,
\* the file made writable, the body run, and the mode put back whatever the
\* body did.  in_scope is the body's outcome under the writable mode.
WithMadeWritableFileMode(old_mode, in_scope) ==
    [content |-> in_scope.content,
     mode |-> old_mode,
     error |-> in_scope.error,
     trace |-> <<[ev |-> "chmod", mode |-> WritableFileMode]>>
               \o in_scope.trace
               \o <<[ev |-> "chmod", mode |-> old_mode]>>]

(***************************************************************************)
(* getSharedLibraryRPATH, removeSharedLibraryRPATH, callInstallNameTool    *)
(* and removeMacOSCodeSignature.                                           *)
(***************************************************************************)
\* The for loop of _getSharedLibraryRPATHElf from lines[i] on.
RECURSIVE ScanReadelfLines(_, _)
ScanReadelfLines(lines, i) ==
    IF i > Len(lines) THEN None
    ELSE IF Contains(lines[i], "RPATH") \/ Contains(lines[i], "RUNPATH")
         THEN DecodeUtf8(Slice(lines[i], Find(lines[i], "[") + 1, RFind(lines[i], "]")))
    ELSE ScanReadelfLines(lines, i + 1)

\* _getSharedLibraryRPATHElf on readelf's output
GetSharedLibraryRPATHElf(output) == ScanReadelfLines(Split(output, "\n"), 1)

\* getSharedLibraryRPATH(filename).  With the fault "no_query_tool" otool
\* and readelf are not installed and executeToolChecked raises.
GetSharedLibraryRPATH(os, filename, fault, content, mode) ==
    IF ExecuteToolChecked(fault # "no_query_tool", 0, "") # "none"
    THEN [result |-> None, error |-> ExecuteToolChecked(fault # "no_query_tool", 0, ""),
          trace |-> <<>>]
    ELSE IF os = "Darwin"
         THEN [result |-> GetSharedLibraryRPATHDarwin(OtoolOutput(content)),
               error |-> "none",
               trace |-> <<[ev |-> "run", argv |-> <<"otool", "-l", filename>>,
                            writable |-> IsWritable(mode)]>>]
    ELSE [result |-> GetSharedLibraryRPATHElf(ReadelfOutput(content)),
          error |-> "none",
          trace |-> <<[ev |-> "run", argv |-> <<"readelf", "-d", filename>>,
                       writable |-> IsWritable(mode)]>>]

\* _removeSharedLibraryRPATHElf(filename), run on a file of this mode
RemoveSharedLibraryRPATHElf(filename, fault, content, mode) ==
    ExecuteMutatingTool(<<"chrpath", "-d", filename>>, FALSE, fault, content, mode)

\* _removeSharedLibraryRPATHDarwin(filename, rpath), run on a file of this mode
RemoveSharedLibraryRPATHDarwin(filename, rpath, fault, content, mode) ==
    ExecuteMutatingTool(<<"install_name_tool", "-delete_rpath", rpath, filename>>,
                        TRUE, fault, content, mode)

\* A removal that enters the writable scope and runs the tool whatever the
\* query answered.
RemoveSharedLibraryRPATH_Always(os, filename, fault, content, mode) ==
    LET query == GetSharedLibraryRPATH(os, filename, fault, content, mode)
        scoped == WithMadeWritableFileMode(mode,
                      RemoveSharedLibraryRPATHElf(filename, fault, content, WritableFileMode))
    IN  IF query.error # "none"
        THEN [content |-> content, mode |-> mode, error |-> query.error, trace |-> query.trace]
        ELSE [scoped EXCEPT !.trace = query.trace \o @]

\* removeSharedLibraryRPATH(filename)
RemoveSharedLibraryRPATH(os, filename, fault, content, mode) ==
    LET query == GetSharedLibraryRPATH(os, filename, fault, content, mode)
        scoped == WithMadeWritableFileMode(mode,
                      IF os = "Darwin"
                      THEN RemoveSharedLibraryRPATHDarwin(
                               filename, query.result, fault, content, WritableFileMode)
                      ELSE RemoveSharedLibraryRPATHElf(
                               filename, fault, content, WritableFileMode))
    IN  IF query.error # "none"
        THEN [content |-> content, mode |-> mode, error |-> query.error, trace |-> query.trace]
        ELSE IF query.result # None
             THEN [scoped EXCEPT !.trace = query.trace \o @]
        ELSE [content |-> content, mode |-> mode, error |-> "none", trace |-> query.trace]

\* The "-change old new" options of a mapping.
RECURSIVE ChangeOptions(_)
ChangeOptions(mapping) ==
    IF mapping = <<>> THEN <<>>
    ELSE <<"-change", mapping[1][1], mapping[1][2]>> \o ChangeOptions(Tail(mapping))

\* A command line that leaves the rpath out.
InstallNameToolCommand_NoRpath(filename, mapping, rpath) ==
    <<"install_name_tool">> \o ChangeOptions(mapping) \o <<filename>>

\* The command line callInstallNameTool builds.
InstallNameToolCommand(filename, mapping, rpath) ==
    <<"install_name_tool">>
    \o ChangeOptions(mapping)
    \o (IF rpath # None THEN <<"-add_rpath", PathJoin(rpath, ".")>> ELSE <<>>)
    \o <<filename>>

\* callInstallNameTool(filename, mapping, rpath)
CallInstallNameTool(filename, mapping, rpath, fault, content, mode) ==
    WithMadeWritableFileMode(mode,
        ExecuteMutatingTool(InstallNameToolCommand(filename, mapping, rpath),
                            TRUE, fault, content, WritableFileMode))

\* A removal that runs codesign on the file as it is, outside any scope.
RemoveMacOSCodeSignature_NoScope(filename, fault, content, mode) ==
    LET ran == ExecuteMutatingTool(<<"codesign", "--remove-signature", filename>>,
                                   FALSE, fault, content, mode)
    IN  [content |-> ran.content, mode |-> mode, error |-> ran.error, trace |-> ran.trace]

\* removeMacOSCodeSignature(filename)
RemoveMacOSCodeSignature(filename, fault, content, mode) ==
    WithMadeWritableFileMode(mode,
        ExecuteMutatingTool(<<"codesign", "--remove-signature", filename>>,
                            FALSE, fault, content, WritableFileMode))

\* Most calls made on the file in one run.
MaxCalls == 3

FileName == "a.so"
FileModes == { {"ur", "gr", "or"}, {"ur", "uw", "ux", "gr", "gx", "or", "ox"} }
Faults == {"none", "missing", "exit_nonzero", "no_query_tool"}
ElfRpathValues == {"$ORIGIN/../lib", "/opt/[x]/lib"}
ElfContents ==
    { [rpaths |-> r, dylibs |-> <<"libc.so.6">>, signed |-> FALSE] :
        r \in {<<>>}
              \cup { <<[tag |-> t, value |-> v]>> :
                       t \in {"RPATH", "RUNPATH"}, v \in ElfRpathValues }
              \cup { <<[tag |-> "RPATH", value |-> "/opt/[x]/lib"],
                       [tag |-> "RUNPATH", value |-> "$ORIGIN/../lib"]>> } }
MachOContents ==
    { [rpaths |-> r, dylibs |-> <<"/usr/lib/libz.dylib">>, signed |-> s] :
        r \in {<<>>}
              \cup { <<[tag |-> "LC_RPATH", value |-> "/opt/x (1)"]>> }
              \cup { <<[tag |-> "LC_RPATH", value |-> "/opt/x (1)"],
                       [tag |-> "LC_RPATH", value |-> "@loader_path/."]>> },
        s \in BOOLEAN }
Mappings == { <<>>, << <<"/usr/lib/libz.dylib", "@rpath/libz.dylib">> >> }
NewRpaths == {None, "@loader_path"}
\* The arguments callInstallNameTool is called with: names to change, an
\* rpath to add, or both.
InstallArguments == (Mappings \X NewRpaths) \ {<< <<>>, None >>}

PatchStart ==
    /\ patch_os \in {"Darwin", "Linux"}
    /\ bin \in IF patch_os = "Darwin" THEN MachOContents ELSE ElfContents
    /\ file_mode \in FileModes
    /\ env_fault \in Faults
    /\ history = <<>>

PatchRest ==
    /\ patch_os = "Linux"
    /\ bin = None
    /\ file_mode = {}
    /\ env_fault = "none"
    /\ history = <<>>

\* One call's record: what was called, the file before and after, what the
\* call returned or raised, and what it did on the way.
CallRecord(op, args, result, error, content, mode, trace) ==
    [op |-> op, args |-> args, before |-> bin, mode_before |-> file_mode,
     after |-> content, mode_after |-> mode, result |-> result, error |-> error,
     trace |-> trace]

CallGetSharedLibraryRPATH ==
    /\ Len(history) < MaxCalls
    /\ LET r == GetSharedLibraryRPATH(patch_os, FileName, env_fault, bin, file_mode)
       IN  history' = Append(history,
               CallRecord("getSharedLibraryRPATH", <<>>, r.result, r.error, bin,
                          file_mode, r.trace))
    /\ UNCHANGED <<patch_os, bin, file_mode, env_fault>>
    /\ UNCHANGED <<filterVars, scanVars, peVars, verVars, sxsVars, locVars>>

CallRemoveSharedLibraryRPATH ==
    /\ Len(history) < MaxCalls
    /\ LET r == RemoveSharedLibraryRPATH(patch_os, FileName, env_fault, bin, file_mode)
       IN  /\ bin' = r.content
           /\ file_mode' = r.mode
           /\ history' = Append(history,
                  CallRecord("removeSharedLibraryRPATH", <<>>, None, r.error, r.content,
                             r.mode, r.trace))
    /\ UNCHANGED <<patch_os, env_fault>>
    /\ UNCHANGED <<filterVars, scanVars, peVars, verVars, sxsVars, locVars>>

CallCallInstallNameTool(mapping, rpath) ==
    /\ Len(history) < MaxCalls
    /\ patch_os = "Darwin"
    /\ LET r == CallInstallNameTool(FileName, mapping, rpath, env_fault, bin, file_mode)
       IN  /\ bin' = r.content
           /\ file_mode' = r.mode
           /\ history' = Append(history,
                  CallRecord("callInstallNameTool", <<mapping, rpath>>, None, r.error,
                             r.content, r.mode, r.trace))
    /\ UNCHANGED <<patch_os, env_fault>>
    /\ UNCHANGED <<filterVars, scanVars, peVars, verVars, sxsVars, locVars>>

CallRemoveMacOSCodeSignature ==
    /\ Len(history) < MaxCalls
    /\ patch_os = "Darwin"
    /\ LET r == RemoveMacOSCodeSignature(FileName, env_fault, bin, file_mode)
       IN  /\ bin' = r.content
           /\ file_mode' = r.mode
           /\ history' = Append(history,
                  CallRecord("removeMacOSCodeSignature", <<>>, None, r.error, r.content,
                             r.mode, r.trace))
    /\ UNCHANGED <<patch_os, env_fault>>
    /\ UNCHANGED <<filterVars, scanVars, peVars, verVars, sxsVars, locVars>>

PatchNext ==
    \/ CallGetSharedLibraryRPATH
    \/ CallRemoveSharedLibraryRPATH
    \/ \E call \in InstallArguments : CallCallInstallNameTool(call[1], call[2])
    \/ CallRemoveMacOSCodeSignature

(***************************************************************************)
(* Specifications: one per part of the module.                             *)
(***************************************************************************)
InitPatch ==
    /\ PatchStart
    /\ FilterStart
    /\ ScanStart
    /\ PERest
    /\ VerRest
    /\ SxsRest
    /\ LocRest

SpecPatch == InitPatch /\ [][PatchNext]_vars

InitLoc ==
    /\ LocStart
    /\ FilterStart
    /\ ScanStart
    /\ PERest
    /\ VerRest
    /\ SxsRest
    /\ PatchRest

SpecLoc == InitLoc /\ [][LocNext]_vars

\* The name the loader resolved is in no directory of the walk.
NowhereInWalk ==
    \A p \in DOMAIN loc_walk : \A j \in 1..Len(loc_walk[p]) :
        loc_found \notin loc_walk[p][j].files

\* The name the loader resolved is declared by no row of the ldconfig table.
InNoLdconfigRow ==
    \A i \in 1..Len(ldconfig_rows) : ldconfig_rows[i].name # loc_found

\* C3: locateDLL returns None and raises nothing whenever the name cannot be
\* found: the loader resolves nothing, the walk on Alpine finds no such file,
\* or the ldconfig table has no such name.
C3_AbsentWhenNotFound ==
    (/\ loc_pc \in {"returned", "raised"}
     /\ \/ loc_found = None
        \/ /\ loc_host = "Alpine"
           /\ ~Contains(loc_found, "/")
           /\ NowhereInWalk
        \/ /\ loc_host = "Linux"
           /\ ~Contains(loc_found, "/")
           /\ ldconfig_present
           /\ InNoLdconfigRow)
        => (loc_result = None /\ loc_error = "none")

\* The part of C3 that the code keeps: None without an error when the loader
\* resolves nothing or the walk finds no such file.
C3_AbsentFromLoaderOrWalk ==
    (/\ loc_pc \in {"returned", "raised"}
     /\ \/ loc_found = None
        \/ /\ loc_host = "Alpine"
           /\ ~Contains(loc_found, "/")
           /\ NowhereInWalk)
        => (loc_result = None /\ loc_error = "none")

InitVer ==
    /\ VerStart
    /\ FilterStart
    /\ ScanStart
    /\ PERest
    /\ SxsRest
    /\ LocRest
    /\ PatchRest

SpecVer == InitVer /\ [][VerNext]_vars

InitSxs ==
    /\ SxsStart
    /\ FilterStart
    /\ ScanStart
    /\ PERest
    /\ VerRest
    /\ LocRest
    /\ PatchRest

SpecSxs == InitSxs /\ [][SxsNext]_vars

InitPE ==
    /\ PEStart
    /\ FilterStart
    /\ ScanStart
    /\ VerRest
    /\ SxsRest
    /\ LocRest
    /\ PatchRest

SpecPE == InitPE /\ [][PENext]_vars

\* The DWORD whose high word is hi and whose low word is lo.
DwordOfWords(hi, lo) == <<lo % 256, lo \div 256, hi % 256, hi \div 256>>

\* C9: with the signature 0xFEEF04BD the result is (MS div 2^16, MS mod 2^16,
\* LS div 2^16, LS mod 2^16), each component in 0..65535, so that 0x00010002
\* and 0x00030004 give (1, 2, 3, 4); with another signature, with a size of
\* zero or with a failed root query the result is (0, 0, 0, 0), and nothing
\* is raised.
C9_VersionDecoding ==
    ver_pc \in {"returned", "raised"} =>
        /\ ver_size = 0 => ver_result = <<0, 0, 0, 0>> /\ ver_error = "none"
        /\ (ver_size # 0 /\ ver_success /\ ~ver_found) =>
               ver_result = <<0, 0, 0, 0>> /\ ver_error = "none"
        /\ (ver_size # 0 /\ ver_success /\ ver_found
                /\ file_info.dwSignature # <<189, 4, 239, 254>>) =>
               ver_result = <<0, 0, 0, 0>> /\ ver_error = "none"
        /\ (ver_size # 0 /\ ver_success /\ ver_found
                /\ file_info.dwSignature = <<189, 4, 239, 254>>) =>
               /\ ver_error = "none"
               /\ \A i \in 1..4 : ver_result[i] \in 0..65535
               /\ DwordOfWords(ver_result[1], ver_result[2]) = file_info.dwFileVersionMS
               /\ DwordOfWords(ver_result[3], ver_result[4]) = file_info.dwFileVersionLS
               /\ (file_info.dwFileVersionMS = <<2, 0, 1, 0>>
                       /\ file_info.dwFileVersionLS = <<4, 0, 3, 0>>) =>
                      ver_result = <<1, 2, 3, 4>>

\* The block of the example, decoded.
C9_Witness ==
    /\ ver_pc = "returned"
    /\ ver_size # 0 /\ ver_success /\ ver_found
    /\ file_info.dwSignature = <<189, 4, 239, 254>>
    /\ file_info.dwFileVersionMS = <<2, 0, 1, 0>>
    /\ file_info.dwFileVersionLS = <<4, 0, 3, 0>>
    /\ ver_result = <<1, 2, 3, 4>>

\* The manifest entries of a list of resources.
IsManifest(r) == r.kind = "RT_MANIFEST"
IsNoManifest(r) == r.kind # "RT_MANIFEST"

\* C8: for a file whose basename is none of sip.pyd, win32ui.pyd, winxpgui.pyd
\* in any letter case nothing is enumerated, nothing deleted and the file is
\* as before, manifests or not; for one of the three names, in any letter
\* case, exactly the manifest entries enumerated are deleted, and nothing is
\* deleted when there are none.
C8_ManifestStrippingOnlyForListedNames ==
    sxs_pc = "returned" =>
        IF sxs_basename \in OtherBasenames
        THEN sxs_calls = <<>> /\ sxs_resources = sxs_before
        ELSE /\ sxs_resources = SelectSeq(sxs_before, IsNoManifest)
             /\ sxs_calls[1].op = "getResourcesFromDLL"
             /\ IF SelectSeq(sxs_before, IsManifest) = <<>>
                THEN Len(sxs_calls) = 1 /\ sxs_resources = sxs_before
                ELSE /\ Len(sxs_calls) = 2
                     /\ sxs_calls[2].op = "deleteWindowsResources"
                     /\ sxs_calls[2].kind = "RT_MANIFEST"
                     /\ Len(sxs_calls[2].names) = Len(SelectSeq(sxs_before, IsManifest))
                     /\ \A i \in 1..Len(sxs_calls[2].names) :
                            sxs_calls[2].names[i] = SelectSeq(sxs_before, IsManifest)[i].name

\* SIP.PYD in a directory, with two manifests around a version resource: only
\* the version resource is left.
C8_Witness ==
    /\ sxs_pc = "returned"
    /\ sxs_filename = "C:\\Py\\Lib\\SIP.PYD"
    /\ Len(sxs_before) = 3
    /\ sxs_before[2].kind = "RT_VERSION"
    /\ sxs_resources = <<sxs_before[2]>>
    /\ Len(sxs_calls) = 2

\* C7: a file with the 32 bit magic gives AMD64 = FALSE, one with the 64 bit
\* magic AMD64 = TRUE, any other magic raises NuitkaAssumptionError and gives
\* no result; an architecture other than the running Python's only logs a
\* warning, it neither changes the flag nor raises.
C7_ArchitectureNeverGuessed ==
    pe_pc \in {"returned", "raised"} =>
        /\ pe_type = OPTIONAL_HEADER_MAGIC_PE =>
               pe_pc = "returned" /\ pe_error = "none" /\ pe_extracted.AMD64 = FALSE
        /\ pe_type = OPTIONAL_HEADER_MAGIC_PE_PLUS =>
               pe_pc = "returned" /\ pe_error = "none" /\ pe_extracted.AMD64 = TRUE
        /\ pe_type \notin {OPTIONAL_HEADER_MAGIC_PE, OPTIONAL_HEADER_MAGIC_PE_PLUS} =>
               /\ pe_pc = "raised"
               /\ pe_error = "NuitkaAssumptionError"
               /\ pe_extracted = None
        /\ pe_pc = "returned" =>
               /\ pe_extracted.DLLs = pe_imports
               /\ (pe_warnings # <<>>) <=>
                      (pe_extracted.AMD64 # (host_arch = "x86_64"))
               /\ Len(pe_warnings) <= 1

\* A 64 bit file read under a 32 bit Python: returned with AMD64 = TRUE and
\* one warning.
C7_Witness ==
    /\ pe_pc = "returned"
    /\ pe_type = OPTIONAL_HEADER_MAGIC_PE_PLUS
    /\ host_arch = "x86"
    /\ pe_extracted.AMD64 = TRUE
    /\ Len(pe_warnings) = 1

InitFilter ==
    /\ FilterStart
    /\ ScanStart
    /\ PERest
    /\ VerRest
    /\ SxsRest
    /\ LocRest
    /\ PatchRest

SpecFilter == InitFilter /\ [][FilterNext]_vars

InitScan ==
    /\ ScanStart
    /\ FilterStart
    /\ PERest
    /\ VerRest
    /\ SxsRest
    /\ LocRest
    /\ PatchRest

SpecScan == InitScan /\ [][ScanNext]_vars

\* The command type of the load command that line i of the report belongs
\* to: the cmd line right after the nearest header at or before line i.
CommandTypeOfLine(i) ==
    LET headers == { j \in 1..i : otool_report[j].kind = "header" }
    IN  IF headers = {} THEN "" ELSE otool_report[MaxOf(headers) + 1].value

\* The path lines of LC_RPATH load commands.
RpathPathLines ==
    { i \in 1..Len(otool_report) :
        otool_report[i].kind = "path" /\ CommandTypeOfLine(i) = "LC_RPATH" }

\* C10: the scanner returns None exactly when no LC_RPATH load command has a
\* path line, and otherwise the value of the first path line of an LC_RPATH
\* load command; path lines of other load commands and cmd lines that do not
\* follow a header do not count.
C10_ScannerReturnsFirstRpath ==
    scan_pc = "returned" =>
        /\ (scan_result = None) <=> (RpathPathLines = {})
        /\ RpathPathLines # {} =>
               scan_result = otool_report[MinOf(RpathPathLines)].value

\* A scanned report whose first load command is an LC_RPATH without a path
\* line and whose second is an LC_RPATH with one: that path was returned.
C10_Witness ==
    /\ scan_pc = "returned"
    /\ Len(otool_report) = 5
    /\ otool_report[1].kind = "header"
    /\ otool_report[2].value = "LC_RPATH"
    /\ otool_report[3].kind = "header"
    /\ otool_report[4].value = "LC_RPATH"
    /\ otool_report[5].value = "/opt/x (1)"
    /\ scan_result = "/opt/x (1)"

\* C5 as stated: the filter drops exactly the empty lines and the lines that
\* contain "invalidates the code signature"; every other line survives in
\* order, and the run fails exactly when the tool failed or a line survived.
C5_AsStated ==
    flt_pc = "checked" =>
        LET Kept(l) == l # "" /\ ~Contains(l, "invalidates the code signature")
        IN  /\ flt_filtered = Join("\n", SelectSeq(stderr_lines, Kept))
            /\ (flt_raised = "none") <=>
                   (flt_exit = 0 /\ SelectSeq(stderr_lines, Kept) = <<>>)

\* C5 amended: the filter drops exactly the empty lines and the lines that
\* contain "invalidate the code signature" (the wording install_name_tool
\* prints); every other line survives unchanged and in order, and the run is
\* a failure exactly when the tool exited non-zero or some line survived.
C5_FilterSuppressesOnlyBenignWarning ==
    flt_pc = "checked" =>
        LET Kept(l) == l # "" /\ ~Contains(l, "invalidate the code signature")
        IN  /\ flt_filtered = Join("\n", SelectSeq(stderr_lines, Kept))
            /\ (flt_raised = "none") <=>
                   (flt_exit = 0 /\ SelectSeq(stderr_lines, Kept) = <<>>)

\* A run whose stderr holds the warning and an empty line only: nothing is
\* left after the filter and the run is accepted.
C5_Witness ==
    /\ flt_pc = "checked"
    /\ flt_exit = 0
    /\ stderr_lines = <<CodeSignatureWarning, "">>
    /\ flt_filtered = ""
    /\ flt_raised = "none"

(***************************************************************************)
(* Claims about the calls that read and change a binary file.              *)
(***************************************************************************)
\* The tools that write the file.
WritingTools == {"chrpath", "install_name_tool", "codesign"}

\* The events of a call's trace that run a tool that writes the file.
WritingRuns(call) ==
    { k \in 1..Len(call.trace) :
        call.trace[k].ev = "run" /\ call.trace[k].argv[1] \in WritingTools }

\* The events of a call's trace that change the file's mode.
ModeChanges(call) == { k \in 1..Len(call.trace) : call.trace[k].ev = "chmod" }

\* Three calls in a row from history[i] on: a query, a removal, a query, on
\* a file that had exactly one rpath entry before the first.
IsQueryRemoveQuery(i) ==
    /\ i + 2 <= Len(history)
    /\ history[i].op = "getSharedLibraryRPATH"
    /\ history[i + 1].op = "removeSharedLibraryRPATH"
    /\ history[i + 2].op = "getSharedLibraryRPATH"
    /\ Len(history[i].before.rpaths) = 1

\* C1: when nothing goes wrong around the tools, a query, a removal and a
\* query in a row on a binary that has exactly one rpath entry of value v all
\* return; the first query returns v and the second one None, on ELF (chrpath
\* -d) and on Mach-O (install_name_tool -delete_rpath v) alike.
C1_QueryRemoveQuery ==
    \A i \in 1..Len(history) :
        (IsQueryRemoveQuery(i) /\ env_fault = "none") =>
            /\ \A k \in i..(i + 2) : history[k].error = "none"
            /\ history[i].result = history[i].before.rpaths[1].value
            /\ history[i + 2].result = None
            /\ history[i + 1].after.rpaths = <<>>

\* A signed, read-only Mach-O file with the one rpath "/opt/x (1)": the
\* first query returned it, the removal deleted it, the second query
\* returned None.
C1_Witness ==
    /\ patch_os = "Darwin"
    /\ env_fault = "none"
    /\ IsQueryRemoveQuery(1)
    /\ history[1].before.signed
    /\ ~IsWritable(history[1].mode_before)
    /\ history[1].result = "/opt/x (1)"
    /\ history[2].error = "none"
    /\ history[3].result = None

\* An ELF file with the one RUNPATH "/opt/[x]/lib": the same on the ELF path.
C1_WitnessElf ==
    /\ patch_os = "Linux"
    /\ env_fault = "none"
    /\ IsQueryRemoveQuery(1)
    /\ history[1].before.rpaths[1].tag = "RUNPATH"
    /\ history[1].result = "/opt/[x]/lib"
    /\ history[3].result = None

\* A removal called on a file without any rpath entry whose query could run.
IsRemovalWithoutRpath(call) ==
    /\ call.op = "removeSharedLibraryRPATH"
    /\ call.before.rpaths = <<>>
    /\ env_fault # "no_query_tool"

\* C2: removeSharedLibraryRPATH on a binary without RPATH/RUNPATH entry (ELF)
\* or LC_RPATH load command (Mach-O) returns without error, runs neither
\* chrpath nor install_name_tool, never changes the file's mode, and leaves
\* content and permission bits as they were.
C2_RemovalWithoutRpathIsNoOp ==
    \A i \in 1..Len(history) :
        IsRemovalWithoutRpath(history[i]) =>
            /\ history[i].error = "none"
            /\ WritingRuns(history[i]) = {}
            /\ ModeChanges(history[i]) = {}
            /\ history[i].after = history[i].before
            /\ history[i].mode_after = history[i].mode_before

\* A removal on a read-only file without rpath, on a host where chrpath and
\* install_name_tool are not installed: it returned and only the query ran.
C2_Witness ==
    /\ env_fault = "missing"
    /\ Len(history) >= 1
    /\ IsRemovalWithoutRpath(history[1])
    /\ ~IsWritable(history[1].mode_before)
    /\ history[1].error = "none"
    /\ Len(history[1].trace) = 1

\* A call that enters the writable scope: callInstallNameTool,
\* removeMacOSCodeSignature, and removeSharedLibraryRPATH on a file whose
\* query found an rpath.
IsMutatingCall(call) ==
    \/ call.op \in {"callInstallNameTool", "removeMacOSCodeSignature"}
    \/ /\ call.op = "removeSharedLibraryRPATH"
       /\ call.before.rpaths # <<>>
       /\ env_fault # "no_query_tool"

\* C4: after each of the three mutating calls the file's permission bits are
\* what they were before it, whether the tool succeeded, failed or was
\* missing; and every run of a writing tool lies between the change to the
\* writable mode and the change back, on a writable file.
C4_ModeRestoredAndToolInScope ==
    \A i \in 1..Len(history) :
        IsMutatingCall(history[i]) =>
            LET call == history[i]
            IN  /\ call.mode_after = call.mode_before
                /\ \A k \in WritingRuns(call) :
                       /\ call.trace[k].writable
                       /\ \E a \in ModeChanges(call) :
                              a < k /\ call.trace[a].mode = WritableFileMode
                       /\ \E b \in ModeChanges(call) :
                              b > k /\ call.trace[b].mode = call.mode_before

\* A removal on a read-only file with an rpath whose tool failed: the tool
\* ran on the writable file and the file is read-only again.
C4_Witness ==
    /\ env_fault = "exit_nonzero"
    /\ Len(history) >= 1
    /\ history[1].op = "removeSharedLibraryRPATH"
    /\ IsMutatingCall(history[1])
    /\ ~IsWritable(history[1].mode_before)
    /\ history[1].error = "tool_failed"
    /\ WritingRuns(history[1]) # {}
    /\ file_mode = history[1].mode_before

\* Two calls of callInstallNameTool in a row from history[i] on, with the
\* same mapping and the same rpath, which is not None.
IsRepeatedInstall(i) ==
    /\ i + 1 <= Len(history)
    /\ history[i].op = "callInstallNameTool"
    /\ history[i + 1].op = "callInstallNameTool"
    /\ history[i + 1].args = history[i].args
    /\ history[i].args[2] # None

\* C6 as stated: when nothing goes wrong around the tool, two calls of
\* callInstallNameTool in a row with the same mapping and the same rpath
\* both succeed, and the second one leaves the binary as the first left it.
C6_AsStated ==
    \A i \in 1..Len(history) :
        (IsRepeatedInstall(i) /\ env_fault = "none") =>
            /\ history[i].error = "none"
            /\ history[i + 1].error = "none"
            /\ history[i + 1].after = history[i].after

\* C6 amended: the second of two calls of callInstallNameTool in a row with
\* the same mapping and the same rpath is refused by install_name_tool,
\* because the file has the rpath by then, and is reported as a failure of
\* the tool; it leaves the binary and its permission bits as the first call
\* left them.  The first call succeeds exactly when the file did not have
\* the rpath before it.
C6_RepeatedAddRpathFails ==
    \A i \in 1..Len(history) :
        (IsRepeatedInstall(i) /\ env_fault = "none") =>
            LET added == PathJoin(history[i].args[2], ".")
            IN  /\ (history[i].error = "none") <=>
                       (added \notin RpathValues(history[i].before))
                /\ added \in RpathValues(history[i].after)
                /\ history[i + 1].error = "tool_failed"
                /\ history[i + 1].after = history[i].after
                /\ history[i + 1].mode_after = history[i].mode_after

\* A first call that changed a name and added the rpath, and then the same
\* call again, which failed and changed nothing.
C6_Witness ==
    /\ env_fault = "none"
    /\ IsRepeatedInstall(1)
    /\ history[1].args[1] # <<>>
    /\ history[1].error = "none"
    /\ history[1].after # history[1].before
    /\ history[2].error = "tool_failed"
    /\ history[2].after = history[1].after

====
